---- MODULE Spec2Model ----
(***************************************************************************)
(* MutableTree of the versioned AVL+ Merkle tree (mutable_tree.go): the    *)
(* working tree, the last saved tree, the unsaved fast-index deltas and    *)
(* the node database behind them.                                          *)
(***************************************************************************)
EXTENDS Integers, Sequences, FiniteSets, TLC

\* ------------------------------------------------------------------ bounds
MaxKey == 3          \* Spec: keys are the byte strings 1..MaxKey, compared as integers
MaxValue == 1        \* values are 0..MaxValue; 0 is the empty (non-nil) byte string
MaxVersion == 3      \* SaveVersion is explored up to this version
MaxSteps == 6        \* Spec: number of public calls explored
MaxTreeKey == 5      \* SpecTree: keys are 1..MaxTreeKey
MaxTreeSteps == 7    \* SpecTree: number of public calls explored
MaxLifeKey == 2      \* SpecVersions: keys are 1..MaxLifeKey
MaxLifeSteps == 7    \* SpecVersions: number of public calls explored
MaxConcSteps == 4    \* SpecConc: number of calls of the writer explored
MaxLoadSteps == 6    \* SpecLoad: number of public calls explored
MaxFailSteps == 7    \* SpecFail: number of public calls explored
MaxOverSteps == 6    \* SpecOverwrite: number of public calls explored
MaxFaultSteps == 6   \* SpecFault: number of public calls explored
MaxKeysSteps == 6    \* SpecKeys: number of public calls explored

Keys == 1..MaxKey
TreeKeys == 1..MaxTreeKey
LifeKeys == 1..MaxLifeKey
Values == 0..MaxValue
NilValue == -1       \* the nil []byte given as a value, or returned for "no value"
NilBytes == 0        \* the nil []byte returned as "no new key" by recursiveRemove

VARIABLES
    root,                      \* tree.ImmutableTree.root
    version,                   \* tree.ImmutableTree.version
    lastSaved,                 \* tree.lastSaved: [root, version]
    orphans,                   \* tree.orphans
    versions,                  \* tree.versions: map[int64]bool
    allRootLoaded,             \* tree.allRootLoaded
    unsavedFastNodeAdditions,  \* key -> [value, version]
    unsavedFastNodeRemovals,   \* set of keys
    skipFastStorageUpgrade,    \* constructor argument
    initialVersion,            \* tree.ndb.opts.InitialVersion
    nodes,                     \* backing store: NodeKey -> persisted node
    roots,                     \* backing store: version -> root NodeKey
    fastNodes,                 \* backing store: key -> FastNode
    storageVersion,            \* ndb.storageVersion marker
    latestVersion,             \* ndb.latestVersion, the cached latest version (0: not known)
    ret,                       \* the last public call, its arguments and results
    steps,                     \* number of public calls still to explore
    pc,                        \* the writer's position inside SaveVersion
    batch,                     \* the writes staged in ndb's batch, not yet committed
    reader                     \* the last call of the concurrent reader and its result

vars == <<root, version, lastSaved, orphans, versions, allRootLoaded,
          unsavedFastNodeAdditions, unsavedFastNodeRemovals,
          skipFastStorageUpgrade, initialVersion, nodes, roots, fastNodes,
          storageVersion, latestVersion, ret, steps, pc, batch, reader>>

\* ------------------------------------------------------------------ nodes
NilNode == [isNil |-> TRUE]
NilKey == [version |-> 0, path |-> 0]    \* a nil *NodeKey; version 0 also marks "root is nil"
NilHash == <<>>                          \* node.hash not computed
EmptyHash == <<"sha256">>                \* the hash of an empty tree

Max(a, b) == IF a >= b THEN a ELSE b

NewNode(key, value) ==
    [key |-> key, value |-> value, subtreeHeight |-> 0, size |-> 1,
     nodeKey |-> NilKey, hash |-> NilHash, leftNode |-> NilNode, rightNode |-> NilNode]

isLeaf(node) == node.subtreeHeight = 0

clone(node) == [node EXCEPT !.nodeKey = NilKey, !.hash = NilHash]

calcHeightAndSize(node) ==
    [node EXCEPT !.subtreeHeight = Max(node.leftNode.subtreeHeight, node.rightNode.subtreeHeight) + 1,
                 !.size = node.leftNode.size + node.rightNode.size]

calcBalance(node) == node.leftNode.subtreeHeight - node.rightNode.subtreeHeight

\* Node._hash: the digest covers height, size, the version the node is hashed at
\* and, for a leaf, key and value, for an inner node the children's hashes.
RECURSIVE hashWithCount(_, _)
hashWithCount(node, v) ==
    IF node = NilNode THEN EmptyHash
    ELSE IF node.hash # NilHash THEN node.hash
    ELSE IF isLeaf(node) THEN <<0, 1, v, node.key, node.value>>
    ELSE <<node.subtreeHeight, node.size, v,
           hashWithCount(node.leftNode, v), hashWithCount(node.rightNode, v)>>

\* ImmutableTree.Hash
TreeHash(r, v) == hashWithCount(r, v + 1)

\* ------------------------------------------------------------- rotations
rotateRight(node) ==
    LET n1 == clone(node)
        newNode == clone(n1.leftNode)
        n2 == calcHeightAndSize([n1 EXCEPT !.leftNode = newNode.rightNode])
    IN  calcHeightAndSize([newNode EXCEPT !.rightNode = n2])

\* rotateLeft that leaves the demoted node's height and size as they were
rotateLeftStale(node) ==
    LET n1 == clone(node)
        newNode == clone(n1.rightNode)
        n2 == [n1 EXCEPT !.rightNode = newNode.leftNode]
    IN  calcHeightAndSize([newNode EXCEPT !.leftNode = n2])

rotateLeft(node) ==
    LET n1 == clone(node)
        newNode == clone(n1.rightNode)
        n2 == calcHeightAndSize([n1 EXCEPT !.rightNode = newNode.leftNode])
    IN  calcHeightAndSize([newNode EXCEPT !.leftNode = n2])

\* balance that never rotates
balanceNone(node) == [node |-> node, err |-> FALSE]

\* a read of the children of an inner node fails: the store gives no node for a
\* child (NilNode stands for the child that could not be read)
childrenUnread(node) == node.leftNode = NilNode \/ node.rightNode = NilNode

\* balance returns [node, err]; err is the "persisted node" programmer error or
\* the error of a read: calcBalance of the taller child and the rotations read
\* the children of the nodes they turn
balance(node) ==
    IF node.nodeKey # NilKey THEN [node |-> NilNode, err |-> TRUE]
    ELSE LET b == calcBalance(node) IN
         IF b > 1 THEN
             IF childrenUnread(node.leftNode) THEN [node |-> NilNode, err |-> TRUE]
             ELSE IF calcBalance(node.leftNode) >= 0
             THEN [node |-> rotateRight(node), err |-> FALSE]
             ELSE IF childrenUnread(node.leftNode.rightNode)
             THEN [node |-> NilNode, err |-> TRUE]
             ELSE [node |-> rotateRight([node EXCEPT !.leftNode = rotateLeft(node.leftNode)]),
                   err |-> FALSE]
         ELSE IF b < -1 THEN
             IF childrenUnread(node.rightNode) THEN [node |-> NilNode, err |-> TRUE]
             ELSE IF calcBalance(node.rightNode) <= 0
             THEN [node |-> rotateLeft(node), err |-> FALSE]
             ELSE IF childrenUnread(node.rightNode.leftNode)
             THEN [node |-> NilNode, err |-> TRUE]
             ELSE [node |-> rotateLeft([node EXCEPT !.rightNode = rotateRight(node.rightNode)]),
                   err |-> FALSE]
         ELSE [node |-> node, err |-> FALSE]

\* ------------------------------------------------------------ recursiveSet
\* an inner node with its two leaves the wrong way round
InnerNodeSwapped(key, left, right) ==
    [key |-> key, value |-> NilValue, subtreeHeight |-> 1, size |-> 2,
     nodeKey |-> NilKey, hash |-> NilHash, leftNode |-> right, rightNode |-> left]

InnerNode(key, left, right) ==
    [key |-> key, value |-> NilValue, subtreeHeight |-> 1, size |-> 2,
     nodeKey |-> NilKey, hash |-> NilHash, leftNode |-> left, rightNode |-> right]

\* recursiveSet returns [node, updated, orphans, err, added]: the new subtree,
\* whether a leaf was replaced, the NodeKeys it appended to tree.orphans, the
\* error, and whether it reached the leaf, where addUnsavedAddition is called.
\* recursiveSet at a leaf that reports an update but keeps the old leaf
setLeafKeep(node, key, value) ==
    IF key < node.key THEN
        [node |-> InnerNode(node.key, NewNode(key, value), node),
         updated |-> FALSE, orphans |-> <<>>, err |-> FALSE, added |-> TRUE]
    ELSE IF key > node.key THEN
        [node |-> InnerNode(key, node, NewNode(key, value)),
         updated |-> FALSE, orphans |-> <<>>, err |-> FALSE, added |-> TRUE]
    ELSE
        [node |-> node, updated |-> TRUE, orphans |-> <<>>, err |-> FALSE, added |-> TRUE]

\* recursiveSet at a leaf: a new inner node over the old and the new leaf, or the
\* new leaf in place of the old one
setLeaf(node, key, value) ==
    IF key < node.key THEN
        [node |-> InnerNode(node.key, NewNode(key, value), node),
         updated |-> FALSE, orphans |-> <<>>, err |-> FALSE, added |-> TRUE]
    ELSE IF key > node.key THEN
        [node |-> InnerNode(key, node, NewNode(key, value)),
         updated |-> FALSE, orphans |-> <<>>, err |-> FALSE, added |-> TRUE]
    ELSE
        [node |-> NewNode(key, value), updated |-> TRUE,
         orphans |-> IF node.nodeKey # NilKey THEN <<node.nodeKey>> ELSE <<>>,
         err |-> FALSE, added |-> TRUE]

\* node.clone(tree) loads both children of the node and fails when the store
\* gives no node for a child
cloneFails(node) == childrenUnread(node)

RECURSIVE recursiveSet(_, _, _)
recursiveSet(node, key, value) ==
    IF isLeaf(node) THEN setLeaf(node, key, value)
    ELSE IF cloneFails(node)
    THEN [node |-> NilNode, updated |-> FALSE, orphans |-> <<>>, err |-> TRUE,
          added |-> FALSE]
    ELSE
        LET n == clone(node)
            goLeft == key < n.key
            r == IF goLeft THEN recursiveSet(n.leftNode, key, value)
                           ELSE recursiveSet(n.rightNode, key, value)
            n1 == IF goLeft THEN [n EXCEPT !.leftNode = r.node]
                            ELSE [n EXCEPT !.rightNode = r.node]
        IN  IF r.err THEN [r EXCEPT !.node = NilNode]
            ELSE IF r.updated THEN [r EXCEPT !.node = n1]
            ELSE LET b == balance(calcHeightAndSize(n1))
                 IN  [node |-> b.node, updated |-> FALSE, orphans |-> r.orphans,
                      err |-> b.err, added |-> r.added]

\* --------------------------------------------------------- recursiveRemove
\* recursiveRemove returns [node, newKey, value, orphans, err]: the subtree that
\* replaces node (NilNode when node was the removed leaf), the new leftmost key
\* if it changed, the removed value (NilValue if key was not found).
\* recursiveRemove at a leaf that orphans the leaf before comparing the key
removeLeafOrphanFirst(node, key) ==
    [node |-> IF key = node.key THEN NilNode ELSE node,
     newKey |-> NilBytes,
     value |-> IF key = node.key THEN node.value ELSE NilValue,
     orphans |-> IF node.nodeKey # NilKey THEN <<node.nodeKey>> ELSE <<>>,
     err |-> FALSE]

\* recursiveRemove at a leaf that reports the value but keeps the leaf
removeLeafKeep(node, key) ==
    [node |-> node, newKey |-> NilBytes,
     value |-> IF key = node.key THEN node.value ELSE NilValue,
     orphans |-> <<>>, err |-> FALSE]

\* recursiveRemove at a leaf
removeLeaf(node, key) ==
    IF key = node.key THEN
        [node |-> NilNode, newKey |-> NilBytes, value |-> node.value,
         orphans |-> IF node.nodeKey # NilKey THEN <<node.nodeKey>> ELSE <<>>,
         err |-> FALSE]
    ELSE [node |-> node, newKey |-> NilBytes, value |-> NilValue,
          orphans |-> <<>>, err |-> FALSE]

\* the routing key kept although the right subtree's leftmost leaf went away
rightRoutingKeyStale(n, newKey) == n.key

\* the routing key of a node whose right subtree lost a leaf
rightRoutingKey(n, newKey) == IF newKey # NilBytes THEN newKey ELSE n.key

RECURSIVE recursiveRemove(_, _)
recursiveRemove(node, key) ==
    IF isLeaf(node) THEN removeLeaf(node, key)
    ELSE IF cloneFails(node)
    THEN [node |-> NilNode, newKey |-> NilBytes, value |-> NilValue,
          orphans |-> <<>>, err |-> TRUE]
    ELSE
        LET n == clone(node) IN
        IF key < n.key THEN
            LET r == recursiveRemove(n.leftNode, key) IN
            IF r.err THEN [r EXCEPT !.node = NilNode, !.newKey = NilBytes, !.value = NilValue]
            ELSE IF r.value = NilValue THEN [r EXCEPT !.node = n, !.newKey = NilBytes]
            ELSE IF r.node = NilNode THEN [r EXCEPT !.node = n.rightNode, !.newKey = n.key]
            ELSE LET b == balance(calcHeightAndSize([n EXCEPT !.leftNode = r.node]))
                 IN  IF b.err
                     THEN [r EXCEPT !.node = NilNode, !.newKey = NilBytes,
                                    !.value = NilValue, !.err = TRUE]
                     ELSE [r EXCEPT !.node = b.node]
        ELSE
            LET r == recursiveRemove(n.rightNode, key) IN
            IF r.err THEN [r EXCEPT !.node = NilNode, !.newKey = NilBytes, !.value = NilValue]
            ELSE IF r.value = NilValue THEN [r EXCEPT !.node = n, !.newKey = NilBytes]
            ELSE IF r.node = NilNode THEN [r EXCEPT !.node = n.leftNode, !.newKey = NilBytes]
            ELSE LET n1 == [n EXCEPT !.rightNode = r.node,
                                     !.key = rightRoutingKey(n, r.newKey)]
                     b == balance(calcHeightAndSize(n1))
                 IN  IF b.err
                     THEN [r EXCEPT !.node = NilNode, !.newKey = NilBytes,
                                    !.value = NilValue, !.err = TRUE]
                     ELSE [r EXCEPT !.node = b.node, !.newKey = NilBytes]

\* ------------------------------------------------- unsaved fast-index deltas
FastNode(value, v) == [value |-> value, version |-> v]

EmptyMap == [k \in {} |-> 0]

\* a Go map assignment m[k] = x
MapSet(m, k, x) == [j \in (DOMAIN m) \cup {k} |-> IF j = k THEN x ELSE m[j]]
\* a Go delete(m, k)
MapDelete(m, k) == [j \in (DOMAIN m) \ {k} |-> m[j]]

\* [additions, removals] after addUnsavedAddition(key, fnode)
addUnsavedAddition(adds, rems, key, fnode) ==
    [additions |-> MapSet(adds, key, fnode), removals |-> rems \ {key}]

\* [additions, removals] after addUnsavedRemoval(key)
addUnsavedRemoval(adds, rems, key) ==
    [additions |-> MapDelete(adds, key), removals |-> rems \cup {key}]

\* --------------------------------------------------------------- node DB
\* What SaveNode writes for a node: its fields, the children by NodeKey.
DbNode(node) ==
    [key |-> node.key, value |-> node.value, subtreeHeight |-> node.subtreeHeight,
     size |-> node.size, hash |-> node.hash,
     leftNodeKey |-> IF isLeaf(node) THEN NilKey ELSE node.leftNode.nodeKey,
     rightNodeKey |-> IF isLeaf(node) THEN NilKey ELSE node.rightNode.nodeKey]

\* ndb.GetNode, with the children a traversal loads through getLeftNode/getRightNode.
RECURSIVE GetNode(_, _)
GetNode(store, nk) ==
    IF nk \notin DOMAIN store THEN NilNode
    ELSE LET d == store[nk] IN
         [key |-> d.key, value |-> d.value, subtreeHeight |-> d.subtreeHeight,
          size |-> d.size, nodeKey |-> nk, hash |-> d.hash,
          leftNode |-> IF d.subtreeHeight = 0 THEN NilNode ELSE GetNode(store, d.leftNodeKey),
          rightNode |-> IF d.subtreeHeight = 0 THEN NilNode ELSE GetNode(store, d.rightNodeKey)]

\* ndb.GetRoot: the root NodeKey of a version (NilKey for an empty tree);
\* only called for versions the store has.
GetRoot(rts, v) == rts[v]

\* ndb.HasVersion
HasVersion(rts, v) == v \in DOMAIN rts

\* ndb.getVersions
getVersions(rts) == DOMAIN rts

\* ndb.getLatestVersion
getLatestVersion(rts) ==
    IF DOMAIN rts = {} THEN 0 ELSE CHOOSE v \in DOMAIN rts : \A w \in DOMAIN rts : w <= v

\* ImmutableTree.Get: the value a traversal from the root finds for key
RECURSIVE TreeGet(_, _)
TreeGet(node, key) ==
    IF node = NilNode THEN NilValue
    ELSE IF isLeaf(node) THEN (IF node.key = key THEN node.value ELSE NilValue)
    ELSE IF key < node.key THEN TreeGet(node.leftNode, key)
    ELSE TreeGet(node.rightNode, key)

\* the per-version root pointer written with the batch of a saved version
SaveRoot(rts, v, nk) == MapSet(rts, v, nk)

\* the root of version v as GetImmutable, LoadVersion and SaveVersion materialise it
LoadRoot(store, rts, v) ==
    IF GetRoot(rts, v).version # 0 THEN GetNode(store, GetRoot(rts, v)) ELSE NilNode

\* ndb.GetNode(rootNodeKey) fails: the version has a root NodeKey, or none at
\* all, that the store cannot resolve
rootUnreadable(store, rts, v) ==
    \/ ~HasVersion(rts, v)
    \/ (GetRoot(rts, v).version # 0 /\ GetRoot(rts, v) \notin DOMAIN store)

\* the children of the persisted nodes a tree holds in memory, read again from
\* the store: a child the store has lost cannot be read
RECURSIVE reread(_, _)
reread(store, node) ==
    IF node = NilNode \/ isLeaf(node) THEN node
    ELSE IF node.nodeKey = NilKey
    THEN [node EXCEPT !.leftNode = reread(store, node.leftNode),
                      !.rightNode = reread(store, node.rightNode)]
    ELSE [node EXCEPT
            !.leftNode = IF node.leftNode = NilNode THEN NilNode
                         ELSE GetNode(store, node.leftNode.nodeKey),
            !.rightNode = IF node.rightNode = NilNode THEN NilNode
                          ELSE GetNode(store, node.rightNode.nodeKey)]

\* ------------------------------------------------------------ saveNewNodes
\* recursiveAssignKey: the subtree with NodeKey (v, path) given to every node
\* that has none, and its hash computed.
\* recursiveAssignKey giving the right child the path of the left child
RECURSIVE recursiveAssignKeySamePath(_, _, _)
recursiveAssignKeySamePath(node, path, v) ==
    IF node.nodeKey # NilKey THEN node
    ELSE LET l == IF node.leftNode # NilNode
                  THEN recursiveAssignKeySamePath(node.leftNode, 2 * path, v) ELSE NilNode
             r == IF node.rightNode # NilNode
                  THEN recursiveAssignKeySamePath(node.rightNode, 2 * path, v) ELSE NilNode
             n == [node EXCEPT !.nodeKey = [version |-> v, path |-> path],
                               !.leftNode = l, !.rightNode = r]
         IN  [n EXCEPT !.hash = hashWithCount(n, v)]

RECURSIVE recursiveAssignKey(_, _, _)
recursiveAssignKey(node, path, v) ==
    IF node.nodeKey # NilKey THEN node
    ELSE LET l == IF node.leftNode # NilNode
                  THEN recursiveAssignKey(node.leftNode, 2 * path, v) ELSE NilNode
             r == IF node.rightNode # NilNode
                  THEN recursiveAssignKey(node.rightNode, 2 * path + 1, v) ELSE NilNode
             n == [node EXCEPT !.nodeKey = [version |-> v, path |-> path],
                               !.leftNode = l, !.rightNode = r]
         IN  [n EXCEPT !.hash = hashWithCount(n, v)]

\* recursiveSave that does not skip the subtrees of earlier versions
RECURSIVE recursiveSaveAll(_, _)
recursiveSaveAll(node, v) ==
    {node}
    \cup (IF node.leftNode # NilNode THEN recursiveSaveAll(node.leftNode, v) ELSE {})
    \cup (IF node.rightNode # NilNode THEN recursiveSaveAll(node.rightNode, v) ELSE {})

\* recursiveSave: the nodes handed to ndb.SaveNode
RECURSIVE recursiveSave(_, _)
recursiveSave(node, v) ==
    IF node.nodeKey.version < v THEN {}
    ELSE {node}
         \cup (IF node.leftNode # NilNode THEN recursiveSave(node.leftNode, v) ELSE {})
         \cup (IF node.rightNode # NilNode THEN recursiveSave(node.rightNode, v) ELSE {})

\* the store after the batch of SaveNode writes has been committed
SaveNodes(store, written) ==
    LET keys == {n.nodeKey : n \in written} IN
    [nk \in (DOMAIN store) \cup keys |->
        IF nk \in keys THEN DbNode(CHOOSE n \in written : n.nodeKey = nk) ELSE store[nk]]

\* saveNewNodes keying the new nodes with the current version, not the next
saveNewNodesSameVersion(r, store, ver) ==
    LET v == ver
        assigned == recursiveAssignKey(r, 1, v)
        store2 == SaveNodes(store, recursiveSave(assigned, v))
    IN  [root |-> IF assigned.nodeKey.version < v \/ isLeaf(assigned) THEN assigned
                  ELSE [assigned EXCEPT
                          !.leftNode = GetNode(store2, assigned.leftNode.nodeKey),
                          !.rightNode = GetNode(store2, assigned.rightNode.nodeKey)],
         nodes |-> store2,
         written |-> {n.nodeKey : n \in recursiveSave(assigned, v)}]

\* saveNewNodes returns [root, nodes, written]: the working root with its keys
\* assigned and its saved children dropped (read back through the store), the
\* store, and the NodeKeys of the nodes it handed to SaveNode.
saveNewNodes(r, store, ver) ==
    LET v == ver + 1
        assigned == recursiveAssignKey(r, 1, v)
        store2 == SaveNodes(store, recursiveSave(assigned, v))
    IN  [root |-> IF assigned.nodeKey.version < v \/ isLeaf(assigned) THEN assigned
                  ELSE [assigned EXCEPT
                          !.leftNode = GetNode(store2, assigned.leftNode.nodeKey),
                          !.rightNode = GetNode(store2, assigned.rightNode.nodeKey)],
         nodes |-> store2,
         written |-> {n.nodeKey : n \in recursiveSave(assigned, v)}]

\* ------------------------------------------------------------- fast index
DefaultStorageVersion == [fast |-> FALSE, version |-> 0]

\* ndb.setFastStorageVersionToBatch: the marker says the fast index is current at v
setFastStorageVersion(v) == [fast |-> TRUE, version |-> v]

\* saveFastNodeAdditions then saveFastNodeRemovals on the persisted fast index
saveFastNodeVersion(fast, adds, rems) ==
    [k \in ((DOMAIN fast) \cup (DOMAIN adds)) \ rems |->
        IF k \in DOMAIN adds THEN adds[k] ELSE fast[k]]

\* the leaves of a tree, as the set of its leaf nodes
RECURSIVE Leaves(_)
Leaves(node) ==
    IF node = NilNode THEN {}
    ELSE IF isLeaf(node) THEN {node}
    ELSE Leaves(node.leftNode) \cup Leaves(node.rightNode)

\* ndb.getLatestVersion through the cache: the cached version, or the store's
\* latest when none is cached
cachedLatestVersion(cached, rts) ==
    IF cached = 0 THEN getLatestVersion(rts) ELSE cached

\* IsUpgradeable
IsUpgradeable(skip, sv, latest) ==
    ~skip /\ (~sv.fast \/ sv.version # latest)

\* enableFastStorageAndCommit: a FastNode written for every leaf of the working
\* tree, over the fast index as it is
enableFastStorageAndCommit(fast, r, ver) ==
    [k \in (DOMAIN fast) \cup {n.key : n \in Leaves(r)} |->
        IF k \in {n.key : n \in Leaves(r)}
        THEN FastNode((CHOOSE n \in Leaves(r) : n.key = k).value, ver)
        ELSE fast[k]]

\* the iteration over a tree stops with an error at an inner node whose child
\* cannot be read from the store
RECURSIVE iterationFails(_)
iterationFails(node) ==
    IF node = NilNode \/ isLeaf(node) THEN FALSE
    ELSE \/ node.leftNode = NilNode \/ node.rightNode = NilNode
         \/ iterationFails(node.leftNode) \/ iterationFails(node.rightNode)

\* enableFastStorageAndCommitIfNotEnabled returns [fastNodes, storageVersion, err]:
\* every fast node deleted, then enableFastStorageAndCommit; when that fails the
\* marker is put back to the default
enableFastStorageAndCommitIfNotEnabled(skip, sv, latest, fast, r, ver) ==
    IF ~IsUpgradeable(skip, sv, latest)
    THEN [fastNodes |-> fast, storageVersion |-> sv, err |-> FALSE]
    ELSE IF iterationFails(r)
    THEN [fastNodes |-> EmptyMap, storageVersion |-> DefaultStorageVersion, err |-> TRUE]
    ELSE [fastNodes |-> enableFastStorageAndCommit(EmptyMap, r, ver),
          storageVersion |-> setFastStorageVersion(latest), err |-> FALSE]

\* ------------------------------------------------------------------ calls
\* discarded: whether the call threw uncommitted edits of the working tree away;
\* written: the NodeKeys of the nodes the call handed to ndb.SaveNode;
\* fault: the step of the call at which the backing store failed
RetNone ==
    [op |-> "none", key |-> 0, value |-> NilValue, ok |-> FALSE, err |-> FALSE,
     version |-> 0, hash |-> NilHash, existed |-> FALSE, discarded |-> FALSE,
     written |-> {}, fault |-> "none"]

\* ndb's batch with nothing staged
NoBatch ==
    [target |-> 0, root |-> NilNode, nodes |-> EmptyMap, roots |-> EmptyMap,
     fastNodes |-> EmptyMap, storageVersion |-> DefaultStorageVersion,
     latestVersion |-> 0, written |-> {}]

\* no call of the reader yet; pc and target are the writer's position and the
\* version it was saving when the reader's call ran
NoRead == [op |-> "none", version |-> 0, ok |-> FALSE, pc |-> "idle", target |-> 0]

InitTree ==
    /\ root = NilNode
    /\ version = 0
    /\ lastSaved = [root |-> NilNode, version |-> 0]
    /\ orphans = <<>>
    /\ versions = EmptyMap
    /\ allRootLoaded = FALSE
    /\ unsavedFastNodeAdditions = EmptyMap
    /\ unsavedFastNodeRemovals = {}
    /\ skipFastStorageUpgrade \in BOOLEAN
    /\ initialVersion = 0
    /\ nodes = EmptyMap
    /\ roots = EmptyMap
    /\ fastNodes = EmptyMap
    /\ storageVersion = DefaultStorageVersion
    /\ latestVersion = 0
    /\ ret = RetNone
    /\ pc = "idle"
    /\ batch = NoBatch
    /\ reader = NoRead

Init == InitTree /\ steps = MaxSteps

\* one public call of the writer, run from its start to its return with no
\* call of a reader in between
Step ==
    /\ pc = "idle"
    /\ steps > 0 /\ steps' = steps - 1
    /\ UNCHANGED <<pc, batch, reader>>

\* set without its check of the value
validValueAny(value) == TRUE

\* set's check of the value
validValue(value) == value # NilValue

\* Set(key, value) with set and recursiveSet, r being the working root as the
\* reads of this call deliver it
SetSeeing(r, key, value) ==
    /\ Step
    /\ IF ~validValue(value) THEN
           /\ ret' = [RetNone EXCEPT !.op = "Set", !.key = key, !.value = value, !.err = TRUE]
           /\ UNCHANGED <<root, orphans, unsavedFastNodeAdditions, unsavedFastNodeRemovals>>
       ELSE IF r = NilNode THEN
           LET d == addUnsavedAddition(unsavedFastNodeAdditions, unsavedFastNodeRemovals,
                                       key, FastNode(value, version + 1))
           IN  /\ root' = NewNode(key, value)
               /\ unsavedFastNodeAdditions' =
                      IF skipFastStorageUpgrade THEN unsavedFastNodeAdditions ELSE d.additions
               /\ unsavedFastNodeRemovals' =
                      IF skipFastStorageUpgrade THEN unsavedFastNodeRemovals ELSE d.removals
               /\ ret' = [RetNone EXCEPT !.op = "Set", !.key = key, !.value = value]
               /\ UNCHANGED orphans
       ELSE
           \* addUnsavedAddition is called at the leaf: not when a clone failed on
           \* the way down, but also when the balancing on the way up fails
           LET s == recursiveSet(r, key, value)
               d == addUnsavedAddition(unsavedFastNodeAdditions, unsavedFastNodeRemovals,
                                       key, FastNode(value, version + 1))
           IN  /\ root' = s.node
               /\ orphans' = orphans \o s.orphans
               /\ unsavedFastNodeAdditions' =
                      IF skipFastStorageUpgrade \/ ~s.added THEN unsavedFastNodeAdditions
                      ELSE d.additions
               /\ unsavedFastNodeRemovals' =
                      IF skipFastStorageUpgrade \/ ~s.added THEN unsavedFastNodeRemovals
                      ELSE d.removals
               /\ ret' = [RetNone EXCEPT !.op = "Set", !.key = key, !.value = value,
                                         !.ok = (s.updated /\ ~s.err), !.err = s.err]
    /\ UNCHANGED <<version, lastSaved, versions, allRootLoaded, skipFastStorageUpgrade,
                   initialVersion, nodes, roots, fastNodes, storageVersion, latestVersion>>

\* the persisted inner nodes of a tree, by NodeKey
RECURSIVE PersistedInner(_)
PersistedInner(node) ==
    IF node = NilNode \/ isLeaf(node) THEN {}
    ELSE (IF node.nodeKey # NilKey THEN {node.nodeKey} ELSE {})
         \cup PersistedInner(node.leftNode) \cup PersistedInner(node.rightNode)

\* the tree as a call sees it when the store fails to deliver the children of
\* the persisted node nk
RECURSIVE unreadable(_, _)
unreadable(node, nk) ==
    IF node = NilNode \/ isLeaf(node) THEN node
    ELSE IF node.nodeKey = nk THEN [node EXCEPT !.leftNode = NilNode, !.rightNode = NilNode]
    ELSE [node EXCEPT !.leftNode = unreadable(node.leftNode, nk),
                      !.rightNode = unreadable(node.rightNode, nk)]

\* Set(key, value)
Set(key, value) == SetSeeing(root, key, value)

\* Set(key, value) during which the reads of the backing store fail
SetReadFails(key, value) ==
    \E nk \in PersistedInner(root) : SetSeeing(unreadable(root, nk), key, value)

\* Remove(key) with recursiveRemove, r being the working root as the reads of
\* this call deliver it
RemoveSeeing(r, key) ==
    /\ Step
    /\ IF r = NilNode THEN
           /\ ret' = [RetNone EXCEPT !.op = "Remove", !.key = key]
           /\ UNCHANGED <<root, orphans, unsavedFastNodeAdditions, unsavedFastNodeRemovals>>
       ELSE
           LET s == recursiveRemove(r, key)
               d == addUnsavedRemoval(unsavedFastNodeAdditions, unsavedFastNodeRemovals, key)
           IN  IF s.err THEN
                   /\ ret' = [RetNone EXCEPT !.op = "Remove", !.key = key, !.err = TRUE]
                   /\ orphans' = orphans \o s.orphans
                   /\ UNCHANGED <<root, unsavedFastNodeAdditions, unsavedFastNodeRemovals>>
               ELSE IF s.value = NilValue THEN
                   /\ ret' = [RetNone EXCEPT !.op = "Remove", !.key = key]
                   /\ orphans' = orphans \o s.orphans
                   /\ UNCHANGED <<root, unsavedFastNodeAdditions, unsavedFastNodeRemovals>>
               ELSE
                   /\ root' = s.node
                   /\ orphans' = orphans \o s.orphans
                   /\ unsavedFastNodeAdditions' =
                          IF skipFastStorageUpgrade THEN unsavedFastNodeAdditions ELSE d.additions
                   /\ unsavedFastNodeRemovals' =
                          IF skipFastStorageUpgrade THEN unsavedFastNodeRemovals ELSE d.removals
                   /\ ret' = [RetNone EXCEPT !.op = "Remove", !.key = key,
                                             !.value = s.value, !.ok = TRUE]
    /\ UNCHANGED <<version, lastSaved, versions, allRootLoaded, skipFastStorageUpgrade,
                   initialVersion, nodes, roots, fastNodes, storageVersion, latestVersion>>

\* Remove(key)
Remove(key) == RemoveSeeing(root, key)

\* Remove(key) during which the reads of the backing store fail
RemoveReadFails(key) ==
    \E nk \in PersistedInner(root) : RemoveSeeing(unreadable(root, nk), key)

\* Rollback that always goes back to the empty tree
RollbackTreeEmpty(ver, saved) == [root |-> NilNode, version |-> 0]

\* the working tree Rollback installs: a clone of lastSaved, or the empty tree
RollbackTree(ver, saved) ==
    IF ver > 0 THEN saved ELSE [root |-> NilNode, version |-> 0]

\* Rollback()
Rollback ==
    /\ Step
    /\ root' = RollbackTree(version, lastSaved).root
    /\ version' = RollbackTree(version, lastSaved).version
    /\ orphans' = <<>>
    /\ unsavedFastNodeAdditions' =
           IF skipFastStorageUpgrade THEN unsavedFastNodeAdditions ELSE EmptyMap
    /\ unsavedFastNodeRemovals' =
           IF skipFastStorageUpgrade THEN unsavedFastNodeRemovals ELSE {}
    /\ ret' = [RetNone EXCEPT !.op = "Rollback", !.discarded = (root # lastSaved.root)]
    /\ UNCHANGED <<lastSaved, versions, allRootLoaded, skipFastStorageUpgrade,
                   initialVersion, nodes, roots, fastNodes, storageVersion, latestVersion>>

\* SetInitialVersion(n)
SetInitialVersion(n) ==
    /\ Step
    /\ initialVersion' = n
    /\ ret' = [RetNone EXCEPT !.op = "SetInitialVersion", !.version = n]
    /\ UNCHANGED <<root, version, lastSaved, orphans, versions, allRootLoaded,
                   unsavedFastNodeAdditions, unsavedFastNodeRemovals,
                   skipFastStorageUpgrade, nodes, roots, fastNodes, storageVersion,
                   latestVersion>>

\* VersionExists(v) returns [has, versions]: the answer and the memoised map
VersionExists(vs, loaded, rts, v) ==
    IF loaded THEN [has |-> (v \in DOMAIN vs /\ vs[v]), versions |-> vs]
    ELSE IF v \in DOMAIN vs THEN [has |-> vs[v], versions |-> vs]
    ELSE [has |-> HasVersion(rts, v), versions |-> MapSet(vs, v, HasVersion(rts, v))]

\* the version SaveVersion saves, InitialVersion ignored
SaveTargetNoInitial(ver, initial) == ver + 1

\* the version SaveVersion saves
SaveTarget(ver, initial) ==
    IF ver + 1 = 1 /\ initial > 0 THEN initial ELSE ver + 1

\* SaveVersion taking any stored root for the working tree
sameTreeAlways(existingRoot, r, newHash) == TRUE

\* SaveVersion's test that the stored root is the working tree
sameTree(existingRoot, r, newHash) ==
    \/ (existingRoot = NilNode /\ r = NilNode)
    \/ (existingRoot # NilNode /\ existingRoot.hash = newHash)

\* SaveVersion, existing-version branch: idempotent if the stored root has the
\* working hash, an error otherwise
SaveExisting(target, vs) ==
    LET existingRoot == LoadRoot(nodes, roots, target)
        newHash == TreeHash(root, version)
    IN  /\ versions' = vs
        /\ IF ~rootUnreadable(nodes, roots, target)
              /\ sameTree(existingRoot, root, newHash)
           THEN /\ version' = target
                /\ root' = existingRoot
                /\ lastSaved' = [root |-> existingRoot, version |-> target]
                /\ orphans' = <<>>
                /\ ret' = [RetNone EXCEPT !.op = "SaveVersion", !.version = target,
                                          !.hash = newHash, !.existed = TRUE]
           ELSE /\ ret' = [RetNone EXCEPT !.op = "SaveVersion", !.version = target,
                                          !.err = TRUE, !.existed = TRUE]
                /\ UNCHANGED <<root, version, lastSaved, orphans>>
        /\ UNCHANGED <<unsavedFastNodeAdditions, unsavedFastNodeRemovals, nodes, roots,
                       fastNodes, storageVersion, latestVersion>>

\* SaveVersion, new-version branch up to Commit: what saveNewNodes and
\* saveFastNodeVersion stage in the batch, as the store a Commit would leave, and
\* the working tree with its node keys assigned
stageVersion(target) ==
    LET saved == IF root # NilNode THEN saveNewNodes(root, nodes, version)
                                   ELSE [root |-> root, nodes |-> nodes, written |-> {}]
        rootKey == IF saved.root = NilNode THEN NilKey ELSE saved.root.nodeKey
    IN  [target |-> target,
         root |-> saved.root,
         nodes |-> saved.nodes,
         roots |-> SaveRoot(roots, target, rootKey),
         fastNodes |-> IF skipFastStorageUpgrade THEN fastNodes
                       ELSE saveFastNodeVersion(fastNodes, unsavedFastNodeAdditions,
                                                unsavedFastNodeRemovals),
         storageVersion |-> IF skipFastStorageUpgrade THEN storageVersion
                            ELSE setFastStorageVersion(target),
         latestVersion |-> Max(latestVersion, target),
         written |-> saved.written]

\* SaveVersion, new-version branch, run without interruption
SaveNew(target, vs) ==
    LET saved == stageVersion(target)
    IN  /\ nodes' = saved.nodes
        /\ roots' = saved.roots
        /\ fastNodes' = saved.fastNodes
        /\ storageVersion' = saved.storageVersion
        /\ latestVersion' = saved.latestVersion
        /\ version' = target
        /\ versions' = MapSet(vs, target, TRUE)
        /\ root' = saved.root
        /\ lastSaved' = [root |-> saved.root, version |-> target]
        /\ orphans' = <<>>
        /\ unsavedFastNodeAdditions' =
               IF skipFastStorageUpgrade THEN unsavedFastNodeAdditions ELSE EmptyMap
        /\ unsavedFastNodeRemovals' =
               IF skipFastStorageUpgrade THEN unsavedFastNodeRemovals ELSE {}
        /\ ret' = [RetNone EXCEPT !.op = "SaveVersion", !.version = target,
                                  !.hash = TreeHash(saved.root, target),
                                  !.written = saved.written]

\* SaveVersion()
SaveVersion ==
    /\ Step
    /\ SaveTarget(version, initialVersion) <= MaxVersion
    /\ LET target == SaveTarget(version, initialVersion)
           ve == VersionExists(versions, allRootLoaded, roots, target)
       IN  IF ve.has THEN SaveExisting(target, ve.versions)
                     ELSE SaveNew(target, ve.versions)
    /\ UNCHANGED <<allRootLoaded, skipFastStorageUpgrade, initialVersion>>

targetVersionFoundAlways(targetVersion, found) == TRUE

\* LoadVersion's test that the version it picked is the one asked for
targetVersionFound(targetVersion, found) ==
    targetVersion = 0 \/ found = targetVersion

\* LoadVersion(targetVersion) returns [err, ret, root, version, lastSaved, orphans,
\* versions, allRootLoaded, fastNodes, storageVersion]: its error, the version it
\* returns and the fields of the tree and of the store it leaves
loadVersion(targetVersion) ==
    LET latest == cachedLatestVersion(latestVersion, roots)
        same == [err |-> FALSE, ret |-> 0, root |-> root, version |-> version,
                 lastSaved |-> lastSaved, orphans |-> orphans, versions |-> versions,
                 allRootLoaded |-> allRootLoaded, fastNodes |-> fastNodes,
                 storageVersion |-> storageVersion]
    IN  IF getVersions(roots) = {} THEN
            LET up == enableFastStorageAndCommitIfNotEnabled(skipFastStorageUpgrade,
                          storageVersion, latest, fastNodes, root, version)
            IN  IF targetVersion <= 0
                THEN [same EXCEPT !.err = up.err, !.fastNodes = up.fastNodes,
                                  !.storageVersion = up.storageVersion]
                ELSE [same EXCEPT !.err = TRUE]
        ELSE
            LET vs == [v \in (DOMAIN versions) \cup getVersions(roots) |->
                          IF v \in getVersions(roots) THEN TRUE ELSE versions[v]]
                cand == {v \in getVersions(roots) : targetVersion = 0 \/ v <= targetVersion}
                found == IF cand = {} THEN 0
                         ELSE CHOOSE v \in cand : \A w \in cand : w <= v
                firstVersion == CHOOSE v \in getVersions(roots) :
                                    \A w \in getVersions(roots) : v <= w
                r == LoadRoot(nodes, roots, found)
                up == enableFastStorageAndCommitIfNotEnabled(skipFastStorageUpgrade,
                          storageVersion, latest, fastNodes, r, found)
            IN  IF \/ ~targetVersionFound(targetVersion, found)
                   \/ (firstVersion > 0 /\ firstVersion < initialVersion)
                THEN [same EXCEPT !.err = TRUE, !.ret = found, !.versions = vs]
                ELSE IF rootUnreadable(nodes, roots, found)
                THEN [same EXCEPT !.err = TRUE, !.versions = vs]
                ELSE [err |-> up.err, ret |-> IF up.err THEN 0 ELSE found,
                      root |-> r, version |-> found,
                      lastSaved |-> [root |-> r, version |-> found], orphans |-> <<>>,
                      versions |-> vs, allRootLoaded |-> TRUE,
                      fastNodes |-> up.fastNodes, storageVersion |-> up.storageVersion]

\* LoadVersion(targetVersion)
LoadVersion(targetVersion) ==
    /\ Step
    /\ \E r \in {loadVersion(targetVersion)} :
           /\ root' = r.root
           /\ version' = r.version
           /\ lastSaved' = r.lastSaved
           /\ orphans' = r.orphans
           /\ versions' = r.versions
           /\ allRootLoaded' = r.allRootLoaded
           /\ fastNodes' = r.fastNodes
           /\ storageVersion' = r.storageVersion
           /\ ret' = [RetNone EXCEPT !.op = "LoadVersion", !.key = targetVersion,
                                     !.version = r.ret, !.err = r.err,
                                     !.discarded = (root # lastSaved.root)]
    /\ UNCHANGED <<unsavedFastNodeAdditions, unsavedFastNodeRemovals,
                   skipFastStorageUpgrade, initialVersion, nodes, roots, latestVersion>>

\* LazyLoadVersion(targetVersion) returns the same record as loadVersion: only
\* the root of the target version is looked up, allRootLoaded is left alone
lazyLoadVersion(targetVersion) ==
    LET latest == cachedLatestVersion(latestVersion, roots)
        same == [err |-> FALSE, ret |-> 0, root |-> root, version |-> version,
                 lastSaved |-> lastSaved, orphans |-> orphans, versions |-> versions,
                 allRootLoaded |-> allRootLoaded, fastNodes |-> fastNodes,
                 storageVersion |-> storageVersion]
        target == IF targetVersion <= 0 THEN latest ELSE targetVersion
    IN  IF latest < targetVersion THEN [same EXCEPT !.err = TRUE, !.ret = latest]
        ELSE IF latest <= 0 THEN
            LET up == enableFastStorageAndCommitIfNotEnabled(skipFastStorageUpgrade,
                          storageVersion, latest, fastNodes, root, version)
            IN  IF targetVersion <= 0
                THEN [same EXCEPT !.err = up.err, !.fastNodes = up.fastNodes,
                                  !.storageVersion = up.storageVersion]
                ELSE [same EXCEPT !.err = TRUE]
        ELSE IF ~HasVersion(roots, target) THEN [same EXCEPT !.err = TRUE, !.ret = latest]
        ELSE IF rootUnreadable(nodes, roots, target)
        THEN [same EXCEPT !.err = TRUE, !.versions = MapSet(versions, target, TRUE)]
        ELSE
            LET r == LoadRoot(nodes, roots, target)
                up == enableFastStorageAndCommitIfNotEnabled(skipFastStorageUpgrade,
                          storageVersion, latest, fastNodes, r, target)
            IN  [err |-> up.err, ret |-> IF up.err THEN 0 ELSE target,
                 root |-> r, version |-> target,
                 lastSaved |-> [root |-> r, version |-> target], orphans |-> <<>>,
                 versions |-> MapSet(versions, target, TRUE),
                 allRootLoaded |-> allRootLoaded,
                 fastNodes |-> up.fastNodes, storageVersion |-> up.storageVersion]

\* LazyLoadVersion(targetVersion)
LazyLoadVersion(targetVersion) ==
    /\ Step
    /\ \E r \in {lazyLoadVersion(targetVersion)} :
           /\ root' = r.root
           /\ version' = r.version
           /\ lastSaved' = r.lastSaved
           /\ orphans' = r.orphans
           /\ versions' = r.versions
           /\ allRootLoaded' = r.allRootLoaded
           /\ fastNodes' = r.fastNodes
           /\ storageVersion' = r.storageVersion
           /\ ret' = [RetNone EXCEPT !.op = "LazyLoadVersion", !.key = targetVersion,
                                     !.version = r.ret, !.err = r.err,
                                     !.discarded = (root # lastSaved.root)]
    /\ UNCHANGED <<unsavedFastNodeAdditions, unsavedFastNodeRemovals,
                   skipFastStorageUpgrade, initialVersion, nodes, roots, latestVersion>>

\* ndb.DeleteVersionsFrom(from) returns [nodes, roots, fastNodes]: the store
\* without the roots, the nodes and the fast nodes of the versions from `from` on
DeleteVersionsFrom(store, rts, fast, from) ==
    [nodes |-> [nk \in {k \in DOMAIN store : k.version < from} |-> store[nk]],
     roots |-> [v \in {w \in DOMAIN rts : w < from} |-> rts[v]],
     fastNodes |-> [k \in {j \in DOMAIN fast : fast[j].version < from} |-> fast[k]]]

forgetNoVersion(vs, targetVersion) == vs

\* LoadVersionForOverwriting's last loop: the in-memory version entries above
\* targetVersion are deleted
forgetVersionsAbove(vs, targetVersion) ==
    [v \in {w \in DOMAIN vs : w <= targetVersion} |-> vs[v]]

\* AvailableVersions(): the versions whose entry is true
AvailableVersions(vs) == {v \in DOMAIN vs : vs[v]}

\* LoadVersionForOverwriting(targetVersion): LoadVersion, DeleteVersionsFrom
\* (the tree in memory is read again from what the store has left),
\* enableFastStorageAndCommitLocked, resetLatestVersion, the forgotten versions
LoadVersionForOverwriting(targetVersion) ==
    /\ Step
    /\ \E r \in {loadVersion(targetVersion)} :
       \E del \in {DeleteVersionsFrom(nodes, roots, r.fastNodes, targetVersion + 1)} :
       \E kept \in {reread(del.nodes, r.root)} :
       \E keptSaved \in {reread(del.nodes, r.lastSaved.root)} :
       \E rebuildFails \in {~skipFastStorageUpgrade /\ iterationFails(kept)} :
           /\ version' = r.version
           /\ orphans' = r.orphans
           /\ allRootLoaded' = r.allRootLoaded
           /\ IF r.err THEN
                  /\ root' = r.root
                  /\ lastSaved' = r.lastSaved
                  /\ versions' = r.versions
                  /\ fastNodes' = r.fastNodes
                  /\ storageVersion' = r.storageVersion
                  /\ UNCHANGED <<nodes, roots, latestVersion>>
              ELSE IF rebuildFails THEN
                  /\ root' = kept
                  /\ lastSaved' = [r.lastSaved EXCEPT !.root = keptSaved]
                  /\ nodes' = del.nodes
                  /\ roots' = del.roots
                  /\ fastNodes' = del.fastNodes
                  /\ storageVersion' = r.storageVersion
                  /\ versions' = r.versions
                  /\ UNCHANGED latestVersion
              ELSE
                  /\ root' = kept
                  /\ lastSaved' = [r.lastSaved EXCEPT !.root = keptSaved]
                  /\ nodes' = del.nodes
                  /\ roots' = del.roots
                  /\ fastNodes' =
                         IF skipFastStorageUpgrade THEN del.fastNodes
                         ELSE enableFastStorageAndCommit(del.fastNodes, kept, r.version)
                  /\ storageVersion' =
                         IF skipFastStorageUpgrade THEN r.storageVersion
                         ELSE setFastStorageVersion(
                                  cachedLatestVersion(latestVersion, del.roots))
                  /\ latestVersion' = r.ret
                  /\ versions' = forgetVersionsAbove(r.versions, targetVersion)
           /\ ret' = [RetNone EXCEPT !.op = "LoadVersionForOverwriting",
                                     !.key = targetVersion, !.version = r.ret,
                                     !.err = (r.err \/ rebuildFails),
                                     !.fault = IF ~r.err /\ rebuildFails
                                               THEN "rebuild" ELSE "none",
                                     !.existed = (\E v \in DOMAIN roots :
                                                     v > targetVersion),
                                     !.discarded = (root # lastSaved.root)]
    /\ UNCHANGED <<unsavedFastNodeAdditions, unsavedFastNodeRemovals,
                   skipFastStorageUpgrade, initialVersion>>

\* MutableTree.Get(key): the unsaved additions, then the unsaved removals, then a
\* traversal of the working tree
Get(key) ==
    IF root = NilNode THEN NilValue
    ELSE IF ~skipFastStorageUpgrade /\ key \in DOMAIN unsavedFastNodeAdditions
         THEN unsavedFastNodeAdditions[key].value
    ELSE IF ~skipFastStorageUpgrade /\ key \in unsavedFastNodeRemovals THEN NilValue
    ELSE TreeGet(root, key)

\* ImmutableTree.IsFastCacheEnabled of the working tree: it is at the latest
\* version and the store is marked as upgraded to the fast index
IsFastCacheEnabled(sv, ver, latest) == sv.fast /\ ver = latest

\* GetImmutable(v) returns [err, root, versions]
GetImmutable(vs, store, rts, v) ==
    IF ~HasVersion(rts, v) THEN [err |-> TRUE, root |-> NilNode, versions |-> vs]
    ELSE IF rootUnreadable(store, rts, v)
    THEN [err |-> TRUE, root |-> NilNode, versions |-> MapSet(vs, v, TRUE)]
    ELSE [err |-> FALSE, root |-> LoadRoot(store, rts, v), versions |-> MapSet(vs, v, TRUE)]

\* GetVersioned's test that the fast node of the key answers for version v
fastNodeAnswers(fast, key, v) == key \in DOMAIN fast /\ fast[key].version <= v

\* GetVersioned(key, v); in ret, existed tells that VersionExists(v) held and ok
\* that the fast index gave the answer
GetVersioned(key, v) ==
    /\ Step
    /\ LET ve == VersionExists(versions, allRootLoaded, roots, v)
           fastOn == /\ ~skipFastStorageUpgrade
                     /\ IsFastCacheEnabled(storageVersion, version,
                                           cachedLatestVersion(latestVersion, roots))
           t == GetImmutable(ve.versions, nodes, roots, v)
       IN  IF ~ve.has THEN
               /\ versions' = ve.versions
               /\ ret' = [RetNone EXCEPT !.op = "GetVersioned", !.key = key, !.version = v]
           ELSE IF fastOn /\ key \notin DOMAIN fastNodes /\ v = latestVersion THEN
               /\ versions' = ve.versions
               /\ ret' = [RetNone EXCEPT !.op = "GetVersioned", !.key = key, !.version = v,
                                         !.existed = TRUE, !.ok = TRUE]
           ELSE IF fastOn /\ fastNodeAnswers(fastNodes, key, v) THEN
               /\ versions' = ve.versions
               /\ ret' = [RetNone EXCEPT !.op = "GetVersioned", !.key = key, !.version = v,
                                         !.value = fastNodes[key].value, !.existed = TRUE,
                                         !.ok = TRUE]
           ELSE
               /\ versions' = t.versions
               /\ ret' = [RetNone EXCEPT !.op = "GetVersioned", !.key = key, !.version = v,
                                         !.value = IF t.err THEN NilValue
                                                   ELSE TreeGet(t.root, key),
                                         !.existed = TRUE]
    /\ UNCHANGED <<root, version, lastSaved, orphans, allRootLoaded,
                   unsavedFastNodeAdditions, unsavedFastNodeRemovals,
                   skipFastStorageUpgrade, initialVersion, nodes, roots, fastNodes,
                   storageVersion, latestVersion>>

Next ==
    \/ \E key \in Keys, value \in Values \cup {NilValue} : Set(key, value)
    \/ \E key \in Keys : Remove(key)
    \/ SaveVersion
    \/ Rollback
    \/ \E n \in 0..MaxVersion : SetInitialVersion(n)
    \/ \E t \in -1..MaxVersion : LoadVersion(t)

Spec == Init /\ [][Next]_vars

\* The tree algorithms on a wider key range: Set, Remove, SaveVersion, Rollback
InitLarge == InitTree /\ steps = MaxTreeSteps

NextTree ==
    \/ \E key \in TreeKeys : Set(key, key % (MaxValue + 1))
    \/ \E key \in TreeKeys : Remove(key)
    \/ SaveVersion
    \/ Rollback

SpecTree == InitLarge /\ [][NextTree]_vars

\* The version lifecycle on few keys: saves, loads, overwriting, versioned reads
InitVersions == InitTree /\ steps = MaxLifeSteps

NextVersions ==
    \/ \E key \in LifeKeys, value \in Values : Set(key, value)
    \/ \E key \in LifeKeys : Remove(key)
    \/ SaveVersion
    \/ Rollback
    \/ \E t \in 0..MaxVersion : LoadVersion(t)
    \/ \E t \in 1..MaxVersion : LoadVersionForOverwriting(t)
    \/ \E key \in LifeKeys, v \in 1..MaxVersion : GetVersioned(key, v)

SpecVersions == InitVersions /\ [][NextVersions]_vars

\* Edits, saves and the two ways of loading a version
InitLoad == InitTree /\ steps = MaxLoadSteps

NextLoad ==
    \/ \E key \in LifeKeys, value \in Values : Set(key, value)
    \/ \E key \in LifeKeys : Remove(key)
    \/ SaveVersion
    \/ Rollback
    \/ \E t \in 0..MaxVersion : LoadVersion(t)
    \/ \E t \in 0..MaxVersion : LazyLoadVersion(t)

SpecLoad == InitLoad /\ [][NextLoad]_vars

\* Edits and saves over a backing store whose reads can fail
InitFail == InitTree /\ steps = MaxFailSteps

NextFail ==
    \/ \E key \in TreeKeys : Set(key, key % (MaxValue + 1))
    \/ \E key \in TreeKeys : Remove(key)
    \/ SaveVersion
    \/ \E key \in TreeKeys : SetReadFails(key, (key + 1) % (MaxValue + 1))
    \/ \E key \in TreeKeys : RemoveReadFails(key)

SpecFail == InitFail /\ [][NextFail]_vars

\* Overwriting with every target: saves, loads and LoadVersionForOverwriting of
\* 0 (the latest version) as well as of the saved versions
InitOverwrite == InitTree /\ steps = MaxOverSteps

NextOverwrite ==
    \/ \E key \in LifeKeys, value \in Values : Set(key, value)
    \/ \E key \in LifeKeys : Remove(key)
    \/ SaveVersion
    \/ Rollback
    \/ \E t \in 0..MaxVersion : LoadVersion(t)
    \/ \E t \in 0..MaxVersion : LoadVersionForOverwriting(t)

SpecOverwrite == InitOverwrite /\ [][NextOverwrite]_vars

\* SaveVersion, new-version branch, whose ndb.Commit() fails: the error is
\* returned as it is. The working tree keeps the node keys saveNewNodes gave it;
\* kept tells whether ndb still holds the staged writes for its next Commit.
SaveVersionCommitFails(kept) ==
    /\ pc = "idle"
    /\ steps > 0 /\ steps' = steps - 1
    /\ SaveTarget(version, initialVersion) <= MaxVersion
    /\ LET target == SaveTarget(version, initialVersion)
           ve == VersionExists(versions, allRootLoaded, roots, target)
           staged == stageVersion(target)
       IN  /\ ~ve.has
           /\ versions' = ve.versions
           /\ root' = staged.root
           /\ batch' = IF kept THEN staged ELSE [NoBatch EXCEPT !.target = target]
           /\ ret' = [RetNone EXCEPT !.op = "SaveVersion", !.version = target,
                                     !.err = TRUE, !.fault = "commit"]
    /\ pc' = "failed"
    /\ UNCHANGED <<version, lastSaved, orphans, allRootLoaded, unsavedFastNodeAdditions,
                   unsavedFastNodeRemovals, skipFastStorageUpgrade, initialVersion,
                   nodes, roots, fastNodes, storageVersion, latestVersion, reader>>

\* recursiveSave on a tree whose keys are assigned and whose saved nodes have
\* dropped their child pointers: the root alone is handed to SaveNode
recursiveSaveShallow(node, v) ==
    IF node = NilNode \/ node.nodeKey.version < v THEN {} ELSE {node}

\* SaveVersion called again after its Commit failed: saveNewNodes finds every
\* key assigned, the fast-node deltas are staged again, Commit succeeds
SaveVersionRetry ==
    /\ pc = "failed"
    /\ steps > 0 /\ steps' = steps - 1
    /\ LET target == batch.target
           kept == target \in DOMAIN batch.roots
           staged == stageVersion(target)
           written == recursiveSaveShallow(root, version + 1)
           store == SaveNodes(IF kept THEN batch.nodes ELSE nodes, written)
       IN  /\ nodes' = store
           /\ roots' = staged.roots
           /\ fastNodes' = staged.fastNodes
           /\ storageVersion' = staged.storageVersion
           /\ latestVersion' = staged.latestVersion
           /\ version' = target
           /\ versions' = MapSet(versions, target, TRUE)
           /\ root' = reread(store, root)
           /\ lastSaved' = [root |-> reread(store, root), version |-> target]
           /\ orphans' = <<>>
           /\ unsavedFastNodeAdditions' =
                  IF skipFastStorageUpgrade THEN unsavedFastNodeAdditions ELSE EmptyMap
           /\ unsavedFastNodeRemovals' =
                  IF skipFastStorageUpgrade THEN unsavedFastNodeRemovals ELSE {}
           /\ ret' = [RetNone EXCEPT !.op = "SaveVersion", !.version = target,
                                     !.hash = TreeHash(root, target),
                                     !.written = {n.nodeKey : n \in written},
                                     !.ok = TRUE]
    /\ pc' = "idle"
    /\ batch' = NoBatch
    /\ UNCHANGED <<allRootLoaded, skipFastStorageUpgrade, initialVersion, reader>>

\* LoadVersion(targetVersion) in which enableFastStorageAndCommitIfNotEnabled
\* fails at a step: "delete", the deletion of the old fast nodes or its commit;
\* "rebuild", enableFastStorageAndCommit (a write, the marker or the commit)
LoadVersionUpgradeFails(targetVersion, step) ==
    /\ Step
    /\ IsUpgradeable(skipFastStorageUpgrade, storageVersion,
                     cachedLatestVersion(latestVersion, roots))
    /\ step = "delete" => fastNodes # EmptyMap
    /\ \E r \in {loadVersion(targetVersion)} :
           /\ ~r.err
           /\ root' = r.root
           /\ version' = r.version
           /\ lastSaved' = r.lastSaved
           /\ orphans' = r.orphans
           /\ versions' = r.versions
           /\ allRootLoaded' = r.allRootLoaded
           /\ fastNodes' = IF step = "delete" THEN fastNodes ELSE EmptyMap
           /\ storageVersion' = IF step = "delete" THEN storageVersion
                                ELSE DefaultStorageVersion
           /\ ret' = [RetNone EXCEPT !.op = "LoadVersion", !.key = targetVersion,
                                     !.err = TRUE, !.fault = step,
                                     !.discarded = (root # lastSaved.root)]
    /\ UNCHANGED <<unsavedFastNodeAdditions, unsavedFastNodeRemovals,
                   skipFastStorageUpgrade, initialVersion, nodes, roots, latestVersion>>

\* LoadVersionForOverwriting(targetVersion) in which
\* enableFastStorageAndCommitLocked fails: the error is returned as it is, after
\* the deletion, before resetLatestVersion and the forgotten versions
LoadVersionForOverwritingRebuildFails(targetVersion) ==
    /\ Step
    /\ ~skipFastStorageUpgrade
    /\ \E r \in {loadVersion(targetVersion)} :
       \E del \in {DeleteVersionsFrom(nodes, roots, r.fastNodes, targetVersion + 1)} :
           /\ ~r.err
           /\ root' = reread(del.nodes, r.root)
           /\ version' = r.version
           /\ lastSaved' = [r.lastSaved EXCEPT !.root = reread(del.nodes, @)]
           /\ orphans' = r.orphans
           /\ versions' = r.versions
           /\ allRootLoaded' = r.allRootLoaded
           /\ nodes' = del.nodes
           /\ roots' = del.roots
           /\ fastNodes' = del.fastNodes
           /\ storageVersion' = r.storageVersion
           /\ ret' = [RetNone EXCEPT !.op = "LoadVersionForOverwriting",
                                     !.key = targetVersion, !.version = r.ret,
                                     !.err = TRUE, !.fault = "rebuild",
                                     !.existed = (\E v \in DOMAIN roots :
                                                     v > targetVersion),
                                     !.discarded = (root # lastSaved.root)]
    /\ UNCHANGED <<unsavedFastNodeAdditions, unsavedFastNodeRemovals,
                   skipFastStorageUpgrade, initialVersion, latestVersion>>

\* The backing store failing: a Commit of SaveVersion, a step of the fast-index
\* upgrade of a load, the rebuild of an overwriting load
InitFault == InitTree /\ steps = MaxFaultSteps

NextFault ==
    \/ \E key \in LifeKeys, value \in Values : Set(key, value)
    \/ \E key \in LifeKeys : Remove(key)
    \/ SaveVersion
    \/ \E kept \in BOOLEAN : SaveVersionCommitFails(kept)
    \/ SaveVersionRetry
    \/ \E t \in 0..MaxVersion : LoadVersion(t)
    \/ \E t \in 1..MaxVersion : LoadVersionForOverwriting(t)
    \/ \E t \in 0..MaxVersion, step \in {"delete", "rebuild"} :
           LoadVersionUpgradeFails(t, step)
    \/ \E t \in 1..MaxVersion : LoadVersionForOverwritingRebuildFails(t)

SpecFault == InitFault /\ [][NextFault]_vars

\* The NodeKeys of the saved nodes: saves from an initial version, after loads
\* of older versions and after overwriting loads
InitKeys == InitTree /\ steps = MaxKeysSteps

NextKeys ==
    \/ \E key \in LifeKeys, value \in Values : Set(key, value)
    \/ \E key \in LifeKeys : Remove(key)
    \/ SaveVersion
    \/ \E n \in 0..MaxVersion : SetInitialVersion(n)
    \/ \E t \in 0..MaxVersion : LoadVersion(t)
    \/ \E t \in 0..MaxVersion : LoadVersionForOverwriting(t)

SpecKeys == InitKeys /\ [][NextKeys]_vars

\* SaveVersion of a new version step by step, with a reader calling
\* VersionExists and GetImmutable between the steps.
\* SaveVersion up to Commit: VersionExists(target) remembers its answer, then
\* saveNewNodes assigns the node keys and the writes are staged
SaveStage ==
    /\ pc = "idle"
    /\ steps > 0 /\ steps' = steps - 1
    /\ SaveTarget(version, initialVersion) <= MaxVersion
    /\ LET target == SaveTarget(version, initialVersion)
           ve == VersionExists(versions, allRootLoaded, roots, target)
           staged == stageVersion(target)
       IN  /\ ~ve.has
           /\ versions' = ve.versions
           /\ root' = staged.root
           /\ batch' = staged
    /\ pc' = "staged"
    /\ UNCHANGED <<version, lastSaved, orphans, allRootLoaded, unsavedFastNodeAdditions,
                   unsavedFastNodeRemovals, skipFastStorageUpgrade, initialVersion,
                   nodes, roots, fastNodes, storageVersion, latestVersion, ret, reader>>

\* ndb.Commit() inside SaveVersion: the batch reaches the store as a whole, or
\* Commit fails, nothing is written and SaveVersion returns the error
SaveCommit(ok) ==
    /\ pc = "staged"
    /\ IF ok
       THEN /\ nodes' = batch.nodes
            /\ roots' = batch.roots
            /\ fastNodes' = batch.fastNodes
            /\ storageVersion' = batch.storageVersion
            /\ latestVersion' = batch.latestVersion
            /\ pc' = "committed"
            /\ UNCHANGED ret
       ELSE /\ pc' = "failed"
            /\ ret' = [RetNone EXCEPT !.op = "SaveVersion", !.version = batch.target,
                                      !.err = TRUE]
            /\ UNCHANGED <<nodes, roots, fastNodes, storageVersion, latestVersion>>
    /\ UNCHANGED <<root, version, lastSaved, orphans, versions, allRootLoaded,
                   unsavedFastNodeAdditions, unsavedFastNodeRemovals,
                   skipFastStorageUpgrade, initialVersion, steps, batch, reader>>

\* SaveVersion after Commit: under the mutex the version is published and the
\* working tree is reset
SavePublish ==
    /\ pc = "committed"
    /\ version' = batch.target
    /\ versions' = MapSet(versions, batch.target, TRUE)
    /\ lastSaved' = [root |-> root, version |-> batch.target]
    /\ orphans' = <<>>
    /\ unsavedFastNodeAdditions' =
           IF skipFastStorageUpgrade THEN unsavedFastNodeAdditions ELSE EmptyMap
    /\ unsavedFastNodeRemovals' =
           IF skipFastStorageUpgrade THEN unsavedFastNodeRemovals ELSE {}
    /\ ret' = [RetNone EXCEPT !.op = "SaveVersion", !.version = batch.target,
                              !.hash = TreeHash(root, batch.target),
                              !.written = batch.written]
    /\ pc' = "idle"
    /\ batch' = NoBatch
    /\ UNCHANGED <<root, allRootLoaded, skipFastStorageUpgrade, initialVersion, nodes,
                   roots, fastNodes, storageVersion, latestVersion, steps, reader>>

\* the version the writer is saving (0 outside SaveVersion)
savingVersion == IF pc = "idle" THEN 0 ELSE batch.target

\* the reader calls VersionExists(v)
ReaderVersionExists(v) ==
    /\ LET ve == VersionExists(versions, allRootLoaded, roots, v)
       IN  /\ versions' = ve.versions
           /\ reader' = [op |-> "VersionExists", version |-> v, ok |-> ve.has,
                         pc |-> pc, target |-> savingVersion]
    /\ UNCHANGED <<root, version, lastSaved, orphans, allRootLoaded,
                   unsavedFastNodeAdditions, unsavedFastNodeRemovals,
                   skipFastStorageUpgrade, initialVersion, nodes, roots, fastNodes,
                   storageVersion, latestVersion, ret, steps, pc, batch>>

\* the reader calls GetImmutable(v)
ReaderGetImmutable(v) ==
    /\ LET im == GetImmutable(versions, nodes, roots, v)
       IN  /\ versions' = im.versions
           /\ reader' = [op |-> "GetImmutable", version |-> v, ok |-> ~im.err,
                         pc |-> pc, target |-> savingVersion]
    /\ UNCHANGED <<root, version, lastSaved, orphans, allRootLoaded,
                   unsavedFastNodeAdditions, unsavedFastNodeRemovals,
                   skipFastStorageUpgrade, initialVersion, nodes, roots, fastNodes,
                   storageVersion, latestVersion, ret, steps, pc, batch>>

InitConc == InitTree /\ steps = MaxConcSteps

NextConc ==
    \/ \E key \in LifeKeys, value \in Values : Set(key, value)
    \/ \E key \in LifeKeys : Remove(key)
    \/ LoadVersion(0)
    \/ SaveStage
    \/ \E ok \in BOOLEAN : SaveCommit(ok)
    \/ SavePublish
    \/ \E v \in 1..MaxVersion : ReaderVersionExists(v)
    \/ \E v \in 1..MaxVersion : ReaderGetImmutable(v)

SpecConc == InitConc /\ [][NextConc]_vars

\* ================================================================ claims
\* every node of a tree
RECURSIVE AllNodes(_)
AllNodes(node) ==
    IF node = NilNode THEN {}
    ELSE {node} \cup AllNodes(node.leftNode) \cup AllNodes(node.rightNode)

HasChild(n) == n.leftNode # NilNode \/ n.rightNode # NilNode

\* the height of a tree, counted from its shape
RECURSIVE Height(_)
Height(node) ==
    IF node = NilNode THEN -1
    ELSE IF ~HasChild(node) THEN 0
    ELSE 1 + Max(Height(node.leftNode), Height(node.rightNode))

\* the leaf keys of a tree, left to right
RECURSIVE InOrder(_)
InOrder(node) ==
    IF node = NilNode THEN <<>>
    ELSE IF ~HasChild(node) THEN <<node.key>>
    ELSE InOrder(node.leftNode) \o InOrder(node.rightNode)

LeafKeys(node) == {n.key : n \in Leaves(node)}

MinKey(node) == CHOOSE k \in LeafKeys(node) : \A j \in LeafKeys(node) : k <= j
MaxLeafKey(node) == CHOOSE k \in LeafKeys(node) : \A j \in LeafKeys(node) : j <= k

TransientInner(n) == n # NilNode /\ HasChild(n) /\ n.nodeKey = NilKey

\* the trees of all committed versions, as GetImmutable reads them
CommittedRoots == {LoadRoot(nodes, roots, v) : v \in DOMAIN roots}

AVL(node) ==
    \A n \in AllNodes(node) :
        HasChild(n) =>
            /\ Height(n.leftNode) - Height(n.rightNode) <= 1
            /\ Height(n.rightNode) - Height(n.leftNode) <= 1

\* C1: in every reachable state every inner node of the working tree, of the last
\* saved tree and of every committed version's tree has children whose heights
\* differ by at most one.
AVLInvariant ==
    /\ AVL(root)
    /\ AVL(lastSaved.root)
    /\ \A r \in CommittedRoots : AVL(r)

\* C1 witness: a Remove from a saved five-leaf tree that needed a double rotation
\* (the root and both its children are fresh clones, every leaf is persisted).
AVLWitness ==
    /\ ret.op = "Remove" /\ ret.ok
    /\ TransientInner(root)
    /\ TransientInner(root.leftNode) /\ TransientInner(root.rightNode)
    /\ \A n \in Leaves(root) : n.nodeKey # NilKey
    /\ DOMAIN roots # {}

\* C2: the leaf keys of the working tree, read left to right, are strictly
\* increasing (so they are unique and every left leaf is below every right leaf).
BSTInvariant ==
    LET ks == InOrder(root)
    IN  \A i \in 1..Len(ks) : \A j \in 1..Len(ks) : i < j => ks[i] < ks[j]

\* C2 witness: a Set of a new key into a saved tree that rotated at the root
\* (both children of the root are fresh clones, only the new leaf is transient).
BSTWitness ==
    /\ ret.op = "Set" /\ ~ret.ok /\ ~ret.err
    /\ TransientInner(root)
    /\ TransientInner(root.leftNode) /\ TransientInner(root.rightNode)
    /\ Cardinality({n \in Leaves(root) : n.nodeKey = NilKey}) = 1
    /\ root.size >= 4

\* C3: every inner node of the working tree carries the smallest leaf key of its
\* right subtree.
RoutingKeyInvariant ==
    \A n \in AllNodes(root) : HasChild(n) => n.key = MinKey(n.rightNode)

\* C3 witness: Remove deleted the leftmost leaf of the root's right subtree, which
\* still is an inner node, and the root's routing key moved up to the next key.
RoutingKeyWitness ==
    /\ ret.op = "Remove" /\ ret.ok
    /\ root # NilNode /\ HasChild(root) /\ HasChild(root.rightNode)
    /\ MaxLeafKey(root.leftNode) < ret.key
    /\ ret.key < root.key

\* C4: every node of the working tree has height 0, size 1 and no child, or two
\* children, height 1 + max of theirs and size the sum of theirs.
SizeHeightInvariant ==
    \A n \in AllNodes(root) :
        IF n.subtreeHeight = 0
        THEN n.size = 1 /\ n.leftNode = NilNode /\ n.rightNode = NilNode
        ELSE /\ n.leftNode # NilNode /\ n.rightNode # NilNode
             /\ n.subtreeHeight =
                    1 + Max(n.leftNode.subtreeHeight, n.rightNode.subtreeHeight)
             /\ n.size = n.leftNode.size + n.rightNode.size
             /\ n.subtreeHeight = Height(n)
             /\ n.size = Cardinality(Leaves(n))

\* C4 witness: a Set that replaced a leaf of a five-leaf tree of height 3
SizeHeightWitness ==
    /\ ret.op = "Set" /\ ret.ok
    /\ root # NilNode /\ root.size = 5 /\ root.subtreeHeight = 3

\* the key -> value map held by the leaves of a tree
Content(node) ==
    [k \in LeafKeys(node) |-> (CHOOSE n \in Leaves(node) : n.key = k).value]

\* the version SaveVersion is to save, from the state before the call
NextVersion == IF version = 0 /\ initialVersion > 0 THEN initialVersion ELSE version + 1

\* what GetImmutable(v) shows of version v: every key's value and the root hash
ReadVersion(store, rts, v) ==
    LET r == LoadRoot(store, rts, v)
    IN  [content |-> [k \in Keys |-> TreeGet(r, k)], hash |-> TreeHash(r, v)]

\* C5: a Set of a non-nil value returns updated = TRUE exactly when the key was a
\* leaf of the working tree before the call, and afterwards the tree holds the
\* previous key -> value map with the key mapped to the value.
SetContract ==
    [][(ret'.op = "Set" /\ ret'.value # NilValue) =>
          /\ ~ret'.err
          /\ ret'.ok = (ret'.key \in LeafKeys(root))
          /\ Content(root') =
                 [k \in LeafKeys(root) \cup {ret'.key} |->
                     IF k = ret'.key THEN ret'.value ELSE Content(root)[k]]]_vars

\* C5 witness: a Set gave a key of the last saved tree another value
SetWitness ==
    /\ ret.op = "Set" /\ ret.ok
    /\ version >= 1 /\ root # NilNode /\ root.size = 3
    /\ ret.key \in LeafKeys(lastSaved.root)
    /\ Content(lastSaved.root)[ret.key] # ret.value
    /\ Content(root)[ret.key] = ret.value

\* C6: Remove returns the key's value and TRUE exactly when the key is a leaf of
\* the working tree, and then the tree holds the previous map without the key;
\* otherwise it returns (nil, FALSE) and the working root, the orphans and the
\* unsaved fast-index deltas stay as they were.
RemoveContract ==
    [][ret'.op = "Remove" =>
          /\ ~ret'.err
          /\ IF ret'.key \in LeafKeys(root)
             THEN /\ ret'.ok
                  /\ ret'.value = Content(root)[ret'.key]
                  /\ Content(root') =
                         [k \in LeafKeys(root) \ {ret'.key} |-> Content(root)[k]]
             ELSE /\ ~ret'.ok
                  /\ ret'.value = NilValue
                  /\ UNCHANGED <<root, orphans, unsavedFastNodeAdditions,
                                 unsavedFastNodeRemovals>>]_vars

\* C6 witness: Remove took a persisted leaf holding the empty value out of a tree
\* that keeps at least three leaves
RemoveWitness ==
    /\ ret.op = "Remove" /\ ret.ok /\ ret.value = 0
    /\ orphans # <<>>
    /\ root # NilNode /\ root.size >= 3
    /\ ret.key \notin LeafKeys(root)

\* C7 as claimed: a Set of a nil or of an empty value fails and changes nothing.
SetRejectsNilOrEmpty ==
    [][(ret'.op = "Set" /\ ret'.value \in {NilValue, 0}) =>
          /\ ret'.err
          /\ UNCHANGED <<root, orphans, unsavedFastNodeAdditions,
                         unsavedFastNodeRemovals>>]_vars

\* C7 amended: a Set of a nil value fails and leaves the working root, the orphans
\* and the unsaved fast-index deltas as they were; an empty value that is not nil
\* is stored like any other value.
SetRejectsNil ==
    [][ret'.op = "Set" =>
          /\ ret'.err = (ret'.value = NilValue)
          /\ ret'.value = NilValue =>
                 /\ ~ret'.ok
                 /\ UNCHANGED <<root, orphans, unsavedFastNodeAdditions,
                                unsavedFastNodeRemovals>>
          /\ ret'.value = 0 => TreeGet(root', ret'.key) = 0]_vars

\* C7 witness: a Set of nil was refused on a saved tree with unsaved edits
SetNilWitness ==
    /\ ret.op = "Set" /\ ret.err /\ ret.value = NilValue
    /\ version >= 1 /\ root # NilNode /\ root.nodeKey = NilKey

\* C8: when the version to save is already in the store, SaveVersion succeeds
\* exactly when the stored root and the working root are both nil or both there
\* with equal hashes, and then moves to that version and takes the stored root;
\* otherwise it fails and keeps version, working root and lastSaved; in both cases
\* the store is left as it was.
SaveExistingContract ==
    [][(ret'.op = "SaveVersion" /\ NextVersion \in DOMAIN roots) =>
          LET stored == LoadRoot(nodes, roots, NextVersion)
              same == \/ (stored = NilNode /\ root = NilNode)
                      \/ /\ stored # NilNode /\ root # NilNode
                         /\ stored.hash = TreeHash(root, version)
          IN  /\ ret'.err = ~same
              /\ ret'.version = NextVersion
              /\ same => (version' = NextVersion /\ root' = stored)
              /\ ~same => UNCHANGED <<version, root, lastSaved>>
              /\ UNCHANGED <<nodes, roots, fastNodes, storageVersion>>]_vars

\* C8 witness: SaveVersion refused to save a tree over a stored version that holds
\* another tree
SaveExistingWitness ==
    /\ ret.op = "SaveVersion" /\ ret.existed /\ ret.err
    /\ root # NilNode
    /\ ret.version \in DOMAIN roots /\ roots[ret.version] # NilKey

\* C9: what GetImmutable shows of a committed version (every key's value, the
\* root hash) never changes, no stored node is ever modified, and Hash() of
\* lastSaved is the stored root hash of its version.
VersionsImmutable ==
    [][/\ \A v \in DOMAIN roots :
              v \in DOMAIN roots' =>
                  ReadVersion(nodes', roots', v) = ReadVersion(nodes, roots, v)
       /\ \A nk \in DOMAIN nodes : nk \in DOMAIN nodes' /\ nodes'[nk] = nodes[nk]
       /\ lastSaved'.version \in DOMAIN roots' =>
              TreeHash(lastSaved'.root, lastSaved'.version) =
                  ReadVersion(nodes', roots', lastSaved'.version).hash]_vars

\* C9 witness: a second version was saved that gives a key of the first version
\* another value
VersionsWitness ==
    /\ ret.op = "SaveVersion" /\ ~ret.err /\ ~ret.existed
    /\ 1 \in DOMAIN roots /\ 2 \in DOMAIN roots
    /\ \E k \in Keys :
           /\ ReadVersion(nodes, roots, 1).content[k] # NilValue
           /\ ReadVersion(nodes, roots, 2).content[k] # NilValue
           /\ ReadVersion(nodes, roots, 1).content[k] #
                  ReadVersion(nodes, roots, 2).content[k]

\* C10: a successful SaveVersion returns the current version + 1, or InitialVersion
\* when the current version is 0 and InitialVersion is set; the returned version is
\* above the previous one, is the current version afterwards and exists, and both
\* Hash() and WorkingHash() are the returned hash.
SaveVersionContract ==
    [][(ret'.op = "SaveVersion" /\ ~ret'.err) =>
          /\ ret'.version = NextVersion
          /\ ret'.version > version
          /\ version' = ret'.version
          /\ VersionExists(versions', allRootLoaded', roots', ret'.version).has
          /\ TreeHash(lastSaved'.root, lastSaved'.version) = ret'.hash
          /\ TreeHash(root', version') = ret'.hash]_vars

\* C10 witness: the first save of a tree with InitialVersion 2 returned version 2
SaveVersionWitness ==
    /\ ret.op = "SaveVersion" /\ ~ret.err /\ ~ret.existed
    /\ ret.version = 2 /\ initialVersion = 2
    /\ 1 \notin DOMAIN roots
    /\ root # NilNode /\ HasChild(root)

\* the NodeKeys of a tree, in its shape
RECURSIVE KeyShape(_)
KeyShape(node) ==
    IF node = NilNode THEN <<>>
    ELSE <<node.nodeKey, KeyShape(node.leftNode), KeyShape(node.rightNode)>>

\* the NodeKeys a save of version v is to leave on a tree: (v, path) on the nodes
\* that have none, root at path 1, children at 2p and 2p + 1; kept where present
RECURSIVE KeysAfterSave(_, _, _)
KeysAfterSave(node, path, v) ==
    IF node = NilNode THEN <<>>
    ELSE IF node.nodeKey # NilKey THEN KeyShape(node)
    ELSE <<[version |-> v, path |-> path],
           KeysAfterSave(node.leftNode, 2 * path, v),
           KeysAfterSave(node.rightNode, 2 * path + 1, v)>>

\* C11: when SaveVersion succeeds with target version V, every node that had no
\* NodeKey carries (V, p) afterwards, p being 1 at the root, 2p(parent) at a left
\* and 2p(parent) + 1 at a right child, and every other node keeps its NodeKey.
AssignedKeysContract ==
    [][(ret'.op = "SaveVersion" /\ ~ret'.err) =>
          KeyShape(root') = KeysAfterSave(root, 1, ret'.version)]_vars

\* C11 where the target is the current version + 1: the same statement for the
\* saves that InitialVersion does not redirect
AssignedKeysNextVersion ==
    [][(ret'.op = "SaveVersion" /\ ~ret'.err /\ ret'.version = version + 1) =>
          KeyShape(root') = KeysAfterSave(root, 1, ret'.version)]_vars

NextVersionTaken ==
    /\ NextVersion \in DOMAIN roots
    /\ LET stored == LoadRoot(nodes, roots, NextVersion)
       IN  ~ \/ (stored = NilNode /\ root = NilNode)
             \/ /\ stored # NilNode /\ root # NilNode
                /\ stored.hash = TreeHash(root, version)

\* C13 as claimed: a SaveVersion right after a successful SaveVersion returns the
\* same hash and hands no node to SaveNode.
IdempotentSave ==
    [][(ret.op = "SaveVersion" /\ ~ret.err /\ ret'.op = "SaveVersion") =>
          /\ ~ret'.err
          /\ ret'.hash = ret.hash
          /\ ret'.written = {}
          /\ nodes' = nodes]_vars

\* C13 amended: a SaveVersion right after a successful SaveVersion hands no node to
\* SaveNode and leaves the stored nodes alone; it fails exactly when the next
\* version is already stored with another tree, and otherwise returns the same
\* hash as the first call.
IdempotentSaveUnlessTaken ==
    [][(ret.op = "SaveVersion" /\ ~ret.err /\ ret'.op = "SaveVersion") =>
          /\ ret'.written = {}
          /\ nodes' = nodes
          /\ ret'.err = NextVersionTaken
          /\ ~ret'.err => (ret'.hash = ret.hash /\ ret'.version = ret.version + 1)]_vars

\* C13 witness: Set, SaveVersion, SaveVersion: the second save stored version 2
\* with the root of version 1
IdempotentSaveWitness ==
    /\ ret.op = "SaveVersion" /\ ~ret.err /\ ~ret.existed
    /\ steps = MaxLifeSteps - 3
    /\ version = 2 /\ root # NilNode
    /\ 1 \in DOMAIN roots /\ 2 \in DOMAIN roots /\ roots[1] = roots[2]

\* the layered lookup of a key: the unsaved additions, then the unsaved removals,
\* then the tree of the last saved version
LayeredGet(key) ==
    IF key \in DOMAIN unsavedFastNodeAdditions THEN unsavedFastNodeAdditions[key].value
    ELSE IF key \in unsavedFastNodeRemovals THEN NilValue
    ELSE TreeGet(lastSaved.root, key)

\* C14: with the fast index in use, in every reachable state Get(K) is, for every
\* key K, the value in the unsaved additions if K is there, else nil if K is in the
\* unsaved removals, else the value of K in the last saved version.
OverlayConsistency ==
    ~skipFastStorageUpgrade => \A key \in Keys : Get(key) = LayeredGet(key)

\* the tree of the latest version in the store (nil when nothing is committed)
LatestCommittedRoot ==
    IF DOMAIN roots = {} THEN NilNode
    ELSE LoadRoot(nodes, roots, getLatestVersion(roots))

\* the persisted fast index holds one FastNode for each key of the latest
\* committed tree, with that key's value, and none for another key
FastIndexMirrorsLatest ==
    /\ DOMAIN fastNodes = LeafKeys(LatestCommittedRoot)
    /\ \A k \in DOMAIN fastNodes : fastNodes[k].value = Content(LatestCommittedRoot)[k]

\* C15: with the fast index in use, after every successful SaveVersion, every
\* successful LoadVersionForOverwriting and every LoadVersion that ran the
\* fast-index upgrade, the persisted fast index holds exactly one FastNode for
\* each key of the latest committed tree, with the committed value, and no other.
FastIndexContract ==
    [][(/\ ~skipFastStorageUpgrade
        /\ ~ret'.err
        /\ \/ ret'.op \in {"SaveVersion", "LoadVersionForOverwriting"}
           \/ /\ ret'.op = "LoadVersion"
              /\ IsUpgradeable(skipFastStorageUpgrade, storageVersion,
                               cachedLatestVersion(latestVersion, roots)))
          => FastIndexMirrorsLatest']_vars

\* the marker says that the fast index is current at the latest stored version
FastIndexCurrent ==
    /\ ~skipFastStorageUpgrade
    /\ storageVersion.fast
    /\ storageVersion.version = getLatestVersion(roots)

\* C16: when the fast index is current, GetVersioned(K, V) returns for every
\* committed version V, the latest and the older ones, the value that a traversal
\* of the tree of version V finds for K.
VersionedReadEquivalence ==
    [][(ret'.op = "GetVersioned" /\ ret'.version \in DOMAIN roots /\ FastIndexCurrent)
          => ret'.value = TreeGet(LoadRoot(nodes, roots, ret'.version), ret'.key)]_vars

OverwritingContract ==
    [][(ret'.op = "LoadVersionForOverwriting" /\ ~ret'.err) =>
          LET t == ret'.key
          IN  /\ t \in DOMAIN roots
              /\ \A v \in DOMAIN roots' : v <= t
              /\ \A nk \in DOMAIN nodes' : nk.version <= t
              /\ \A v \in AvailableVersions(versions') : v <= t
              /\ \A v \in (t + 1)..(MaxVersion + 1) :
                     ~VersionExists(versions', allRootLoaded', roots', v).has
              /\ \A v \in DOMAIN roots : v <= t =>
                     /\ v \in AvailableVersions(versions')
                     /\ VersionExists(versions', allRootLoaded', roots', v).has
                     /\ v \in DOMAIN roots'
                     /\ ReadVersion(nodes', roots', v) = ReadVersion(nodes, roots, v)
              /\ version' = t
              /\ ret'.version = t]_vars

\* C18: the SaveVersion that follows a successful LoadVersionForOverwriting(t)
\* succeeds and returns t + 1.
OverwritingThenSave ==
    [][(/\ ret.op = "LoadVersionForOverwriting" /\ ~ret.err
        /\ ret'.op = "SaveVersion")
          => (~ret'.err /\ ret'.version = ret.key + 1 /\ ~ret'.existed)]_vars

\* C18: both parts
OverwritingLaw ==
    OverwritingContract /\ OverwritingThenSave

\* LoadVersionForOverwriting(1) has put back a non-empty version 1 over unsaved
\* edits and deleted the later versions that were in the store
OverwritingWitness ==
    /\ ret.op = "LoadVersionForOverwriting" /\ ~ret.err /\ ret.key = 1
    /\ ret.existed /\ ret.discarded
    /\ root # NilNode /\ version = 1 /\ DOMAIN roots = {1}

\* C19: a reader running beside the writer's SaveVersion of version V gets neither
\* VersionExists(V) = true nor a tree from GetImmutable(V) while SaveVersion has
\* not yet committed the batch of V and published V under the mutex, nor after a
\* SaveVersion of V whose commit failed.
PublishPoint ==
    (reader.ok /\ reader.version = reader.target)
        => reader.pc \notin {"staged", "committed", "failed"}

\* what the code does keep: V is seen neither before the commit of its batch nor
\* after a failed commit
VisibleOnlyAfterCommit ==
    (reader.ok /\ reader.version = reader.target)
        => reader.pc \notin {"staged", "failed"}

\* MutableTree.set on a tree given by its root: the new root
setTree(r, key, value) ==
    IF r = NilNode THEN NewNode(key, value) ELSE recursiveSet(r, key, value).node

\* a fresh tree in which the pairs of the map m are set in the given order of keys
RECURSIVE Replay(_, _, _)
Replay(r, m, order) ==
    IF order = <<>> THEN r
    ELSE Replay(setTree(r, Head(order), m[Head(order)]), m, Tail(order))

\* every order of the keys of a set
RECURSIVE Orders(_)
Orders(S) ==
    IF S = {} THEN {<<>>}
    ELSE UNION {{<<k>> \o o : o \in Orders(S \ {k})} : k \in S}

\* the key -> value map after the call recorded in r on a tree holding m
Effect(m, r) ==
    IF r.op = "Set" THEN MapSet(m, r.key, r.value)
    ELSE IF r.op = "Remove" THEN MapDelete(m, r.key)
    ELSE m

DeltasAgree ==
    /\ \A k \in DOMAIN unsavedFastNodeAdditions :
           k \in LeafKeys(root) /\ unsavedFastNodeAdditions[k].value = Content(root)[k]
    /\ \A k \in unsavedFastNodeRemovals : k \notin LeafKeys(root)

\* C25: in every reachable state, also after LoadVersion, LazyLoadVersion or an
\* idempotent SaveVersion over uncommitted edits, every key of the unsaved
\* additions is a leaf of the working tree with the same value, no key of the
\* unsaved removals is a leaf of the working tree, and Get(K) is what a traversal
\* of the working root finds.
DeltasFollowTree ==
    ~skipFastStorageUpgrade =>
        (DeltasAgree /\ \A key \in LifeKeys : Get(key) = TreeGet(root, key))

\* the NodeKeys of the nodes of a tree
TreeKeysOf(node) == {n.nodeKey : n \in AllNodes(node)} \ {NilKey}

\* C23: in every reachable state each NodeKey in orphans is the key of a persisted
\* leaf that is a leaf of the last saved tree and is not reachable from the
\* working root (Set overwrote it or Remove deleted it since the last save,
\* rollback or load).
OrphansInvariant ==
    \A i \in 1..Len(orphans) :
        /\ orphans[i] \in DOMAIN nodes
        /\ nodes[orphans[i]].subtreeHeight = 0
        /\ orphans[i] \in {n.nodeKey : n \in Leaves(lastSaved.root)}
        /\ orphans[i] \notin TreeKeysOf(root)

\* C23: orphans is empty right after every successful SaveVersion, Rollback,
\* LoadVersion and LazyLoadVersion.
OrphansCleared ==
    [][(ret'.op \in {"SaveVersion", "Rollback", "LoadVersion", "LazyLoadVersion"}
        /\ ~ret'.err) => orphans' = <<>>]_vars

\* C23: both parts
OrphansLaw ==
    []OrphansInvariant /\ OrphansCleared

\* since the last save Set has overwritten one persisted leaf and Remove has
\* deleted another
OrphansWitness ==
    /\ ret.op = "Remove" /\ ret.value # NilValue
    /\ Len(orphans) = 2 /\ orphans[1] # orphans[2]
    /\ version >= 1 /\ root # NilNode

\* C26: whenever Set or Remove returns an error raised inside the recursive
\* descent (a read of the backing store failed), the working tree's root and its
\* key -> value content are what they were before the call.
FailedEditKeepsTree ==
    [][(/\ ret'.op \in {"Set", "Remove"}
        /\ ret'.err
        /\ ret'.op = "Set" => validValue(ret'.value))
          => (root' = root /\ Content(root') = Content(root))]_vars

\* what the code keeps: a Remove that fails leaves the root and the deltas alone
FailedRemoveKeepsTree ==
    [][(ret'.op = "Remove" /\ ret'.err)
          => (root' = root /\ unsavedFastNodeAdditions' = unsavedFastNodeAdditions
              /\ unsavedFastNodeRemovals' = unsavedFastNodeRemovals)]_vars

\* C27: a successful LoadVersionForOverwriting that returns a version returns the
\* working tree's version, and that version is still in the store and is listed
\* by AvailableVersions
OverwritingKeepsReturned ==
    [][(ret'.op = "LoadVersionForOverwriting" /\ ~ret'.err /\ ret'.version > 0) =>
          (/\ ret'.version = version'
           /\ HasVersion(roots', ret'.version)
           /\ ret'.version \in AvailableVersions(versions'))]_vars

\* what the code keeps: the claim for the targets above 0
OverwritingKeepsTarget ==
    [][(ret'.op = "LoadVersionForOverwriting" /\ ~ret'.err /\ ret'.key > 0) =>
          (/\ ret'.version = version' /\ ret'.version = ret'.key
           /\ HasVersion(roots', ret'.version)
           /\ ret'.version \in AvailableVersions(versions'))]_vars

\* C24: whenever a call returns the error of a backing-store failure (the commit
\* of SaveVersion, a step of the fast-index upgrade or rebuild), the
\* storage-version marker is the default sentinel when the error is returned
FaultResetsMarker ==
    [][(ret'.err /\ ret'.fault # "none") =>
          storageVersion' = DefaultStorageVersion]_vars

\* what the code keeps: the marker is reset when enableFastStorageAndCommit
\* fails inside enableFastStorageAndCommitIfNotEnabled
RebuildFaultResetsMarker ==
    [][(ret'.err /\ ret'.op = "LoadVersion" /\ ret'.fault = "rebuild") =>
          storageVersion' = DefaultStorageVersion]_vars

\* the tree committed as version v can be read whole from the store: its root
\* resolves and no node below it is missing
VersionStored(store, rts, v) ==
    /\ ~rootUnreadable(store, rts, v)
    /\ ~iterationFails(LoadRoot(store, rts, v))

\* C21: after every successful SaveVersion the tree committed as the new version
\* can be read whole from the store, and it answers every key as the working
\* tree that was saved
CommittedTreeStored ==
    [][(ret'.op = "SaveVersion" /\ ~ret'.err) =>
          (/\ VersionStored(nodes', roots', ret'.version)
           /\ \A key \in LifeKeys :
                  TreeGet(LoadRoot(nodes', roots', ret'.version), key)
                      = TreeGet(root', key))]_vars

\* what the code keeps: a successful SaveVersion that is no retry and starts from
\* a working tree that can be read whole, its persisted nodes all in the store
CommittedTreeStoredFirstTry ==
    [][(/\ ret'.op = "SaveVersion" /\ ~ret'.err /\ pc = "idle"
        /\ ~iterationFails(root) /\ TreeKeysOf(root) \subseteq DOMAIN nodes) =>
          VersionStored(nodes', roots', ret'.version)]_vars

\* what the code keeps: a retry after a failed Commit whose staged writes ndb
\* still holds, from a working tree that can be read whole
CommittedTreeStoredRetryKept ==
    [][(/\ ret'.op = "SaveVersion" /\ ~ret'.err /\ pc = "failed"
        /\ batch.target \in DOMAIN batch.roots /\ ~iterationFails(root)) =>
          VersionStored(nodes', roots', ret'.version)]_vars

\* a retry after a failed Commit whose staged writes ndb has dropped
CommittedTreeStoredRetryDropped ==
    [][(/\ ret'.op = "SaveVersion" /\ ~ret'.err /\ pc = "failed"
        /\ batch.target \notin DOMAIN batch.roots /\ ~iterationFails(root)) =>
          VersionStored(nodes', roots', ret'.version)]_vars

\* the nodes of a tree that have no NodeKey yet
NewNodes(node) == {n \in AllNodes(node) : n.nodeKey = NilKey}

\* C22: a successful SaveVersion gives the new nodes of the working tree as many
\* NodeKeys as there are new nodes (none when the version existed and the save
\* is a no-op), each key in the store afterwards holds the
\* node it was given to, and no key that the store already had holds another
\* node after the save than before
NodeKeysUnique ==
    [][(ret'.op = "SaveVersion" /\ ~ret'.err) =>
          (/\ Cardinality(ret'.written) =
                  IF ret'.existed THEN 0 ELSE Cardinality(NewNodes(root))
           /\ ret'.written \subseteq DOMAIN nodes'
           /\ ret'.written \cap DOMAIN nodes = {}
           /\ \A nk \in DOMAIN nodes : nk \in DOMAIN nodes' /\ nodes'[nk] = nodes[nk]
           /\ \A n \in AllNodes(root') :
                  n.nodeKey \in ret'.written =>
                      (/\ nodes'[n.nodeKey].key = n.key
                       /\ nodes'[n.nodeKey].value = n.value
                       /\ nodes'[n.nodeKey].hash = n.hash))]_vars

\* C22 witness: with an initial version above 1, a second version has been saved
\* that wrote an inner node and a leaf next to the nodes the store already had
NodeKeysWitness ==
    /\ ret.op = "SaveVersion" /\ ~ret.err
    /\ Cardinality(ret.written) >= 2
    /\ initialVersion > 1
    /\ version > initialVersion
    /\ DOMAIN nodes \ ret.written # {}

====
